---- MODULE Spec2Model ----
(***************************************************************************)
(* Forecast-reconciliation pipeline of the LME copper prediction system    *)
(* (src/src/daily_prediction_system.py) together with the price feed that  *)
(* fills lme_copper_futures (src/data_collection/                          *)
(* lme_copper_futures_collector.py).                                       *)
(*                                                                         *)
(* Dates are day numbers; day 0 is a Monday, so datetime.weekday() of day  *)
(* d is d % 7 (5 = Saturday, 6 = Sunday).  DECIMAL(12,4) columns hold      *)
(* integers counted in 1/10000 ("ticks"); Python floats are exact          *)
(* rationals <<num, den>> of ticks, den > 0, in lowest terms, or NaN.      *)
(***************************************************************************)
EXTENDS Integers, Sequences, FiniteSets, TLC

\* SQL NULL (None in Python); every price and date of the model is >= 0
NULL == -1

\* self.target_contract
target_contract == 3

\* self.prediction_horizon
prediction_horizon == 5

\* 'v1.0', the model_version literal of save_predictions
model_version == "v1.0"

\* self.feature_columns, written to features_used
feature_columns == <<"close_price", "volume", "price_change", "volume_change",
                     "ma_5", "ma_20", "rsi", "volatility", "spread_1m_3m">>

\* minimum number of data rows make_predictions accepts
min_data_rows == 30

(***************************************************************************)
(* Bounds of the model                                                     *)
(***************************************************************************)
\* number of command invocations (predict / update) over a behaviour
MaxRuns == 2

\* the two concurrently running command processes
Procs == {1, 2}

\* the day the first command may run on: a Thursday
StartDay == 3

\* close prices and point predictions, in ticks
Closes == {100, 104}

(***************************************************************************)
(* Float arithmetic (exact rationals)                                      *)
(***************************************************************************)
RECURSIVE Gcd(_, _)
Gcd(a, b) == IF b = 0 THEN a ELSE Gcd(b, a % b)

\* a float holding num/den ticks, in lowest terms
Float(num, den) == <<num \div Gcd(num, den), den \div Gcd(num, den)>>

RECURSIVE SumNum(_, _)
\* numerator of the sum of the floats of s over the common denominator d
SumNum(s, d) == IF s = <<>> THEN 0
                ELSE Head(s)[1] * (d \div Head(s)[2]) + SumNum(Tail(s), d)

RECURSIVE DenProduct(_)
DenProduct(s) == IF s = <<>> THEN 1 ELSE Head(s)[2] * DenProduct(Tail(s))

\* float('nan'): the one float that is no rational
NaN == <<1, 0>>

\* the 'NaN' value of a PostgreSQL numeric (DECIMAL) column
NUMERIC_NaN == -2

\* np.mean(day_predictions) of a non-empty list of floats; NaN propagates
NpMean(s) ==
    IF \E k \in 1..Len(s) : s[k] = NaN THEN NaN
    ELSE Float(SumNum(s, DenProduct(s)), DenProduct(s) * Len(s))

\* float -> DECIMAL(12,4): PostgreSQL numeric rounds half away from zero
\* (values are non-negative here) and accepts NaN
ToDecimal(f) ==
    IF f = NaN THEN NUMERIC_NaN ELSE (2 * f[1] + f[2]) \div (2 * f[2])

\* ABS(a - b) on DECIMAL values; NaN propagates
AbsDiff(a, b) ==
    IF a = NUMERIC_NaN \/ b = NUMERIC_NaN THEN NUMERIC_NaN
    ELSE IF a >= b THEN a - b ELSE b - a

(***************************************************************************)
(* Calendar                                                                *)
(***************************************************************************)
\* datetime.weekday(): Monday = 0 ... Sunday = 6
Weekday(d) == d % 7

RECURSIVE SkipSundayOnly(_)
\* the loop with "> 5" in place of ">= 5"
SkipSundayOnly(d) == IF Weekday(d) > 5 THEN SkipSundayOnly(d + 1) ELSE d

RECURSIVE SkipWeekend(_)
\* while target_date.weekday() >= 5: target_date += timedelta(days=1)
SkipWeekend(d) == IF Weekday(d) >= 5 THEN SkipWeekend(d + 1) ELSE d

\* target_date of save_predictions for horizon step days_ahead
TargetDate(prediction_date, days_ahead) == SkipWeekend(prediction_date + days_ahead)

(***************************************************************************)
(* make_predictions                                                        *)
(***************************************************************************)
\* outcome of a predict() call that raised: no float
RAISED == <<0, 0>>

\* outcome of a forecast() call that raised: no list of floats
RAISED_LIST == <<RAISED>>

\* insertion order of the predictions dict, which is the order of
\* predictions.items() in the ensemble loop and in save_predictions
ModelOrder == <<"random_forest", "xgboost", "arima", "prophet", "ensemble">>

\* the models load_models can put into self.models
LoadableModels == {"random_forest", "xgboost", "arima", "lstm"}

\* [rf_pred] * self.prediction_horizon
Broadcast(v) == [i \in 1..prediction_horizon |-> v]

\* an adapter whose exception discards the predictions collected so far
TryModelAbortOnRaise(predictions, models, name, raised, pred_list) ==
    IF name \in models
    THEN IF raised THEN <<>> ELSE predictions @@ (name :> pred_list)
    ELSE predictions

\* predictions[name] = pred_list inside "if name in self.models: try: ..."
TryModel(predictions, models, name, raised, pred_list) ==
    IF name \in models /\ ~raised
    THEN predictions @@ (name :> pred_list)
    ELSE predictions

\* the per-model part of make_predictions: inp is the call's environment,
\* [models: loaded models, rf / xgb: value or RAISED, arima / prophet: list
\* or RAISED_LIST]
ModelPredictions(inp) ==
    LET p0 == <<>>
        p1 == TryModel(p0, inp.models, "random_forest", inp.rf = RAISED,
                       Broadcast(inp.rf))
        p2 == TryModel(p1, inp.models, "xgboost", inp.xgb = RAISED,
                       Broadcast(inp.xgb))
        p3 == TryModel(p2, inp.models, "arima", inp.arima = RAISED_LIST, inp.arima)
        p4 == TryModel(p3, inp.models, "prophet", inp.prophet = RAISED_LIST,
                       inp.prophet)
    IN  p4

RECURSIVE DayPredictionsZeroFilled(_, _, _)
\* day_predictions that counts a model without a value at step i as 0
DayPredictionsZeroFilled(predictions, i, order) ==
    IF order = <<>> THEN <<>>
    ELSE LET m == Head(order)
             rest == DayPredictionsZeroFilled(predictions, i, Tail(order))
         IN  IF m \in DOMAIN predictions
             THEN <<IF i <= Len(predictions[m]) THEN predictions[m][i] ELSE Float(0, 1)>>
                  \o rest
             ELSE rest

RECURSIVE DayPredictions(_, _, _)
\* day_predictions of horizon step i (1-based here, i - 1 in the code):
\* the values pred_list[i] of the models, in dict order, with i < len(pred_list)
DayPredictions(predictions, i, order) ==
    IF order = <<>> THEN <<>>
    ELSE LET m == Head(order)
             rest == DayPredictions(predictions, i, Tail(order))
         IN  IF m \in DOMAIN predictions /\ i <= Len(predictions[m])
             THEN <<predictions[m][i]>> \o rest
             ELSE rest

RECURSIVE EnsembleValues(_, _)
\* ensemble_values after the steps i..prediction_horizon of the loop
EnsembleValues(predictions, i) ==
    IF i > prediction_horizon THEN <<>>
    ELSE LET day == DayPredictions(predictions, i, ModelOrder)
         IN  (IF day # <<>> THEN <<NpMean(day)>> ELSE <<>>)
             \o EnsembleValues(predictions, i + 1)

\* if predictions: ... if ensemble_values: predictions['ensemble'] = ...
WithEnsemble(predictions) ==
    IF DOMAIN predictions # {} /\ EnsembleValues(predictions, 1) # <<>>
    THEN predictions @@ ("ensemble" :> EnsembleValues(predictions, 1))
    ELSE predictions

\* a make_predictions that predicts from any number of rows
make_predictions_any_rows(data_rows, inp) == WithEnsemble(ModelPredictions(inp))

\* make_predictions(data): data_rows is len(data)
make_predictions(data_rows, inp) ==
    IF data_rows < min_data_rows THEN <<>>
    ELSE WithEnsemble(ModelPredictions(inp))

(***************************************************************************)
(* Tables                                                                  *)
(***************************************************************************)
VARIABLES
    today,               \* CURRENT_DATE / datetime.now().date()
    lme_copper_futures,  \* committed rows of lme_copper_futures
    daily_predictions,   \* committed rows of daily_predictions
    pc,                  \* pc[p]: where command process p stands
    predictions,         \* predictions[p]: the dict make_predictions returned
    prediction_date,     \* prediction_date[p]: argument of save_predictions
    stmts,               \* stmts[p]: INSERT statements save_predictions has still to execute
    txn,                 \* txn[p]: row versions written by p's open transaction
    runs,                \* commands started so far
    call,                \* a single make_predictions call: its arguments and result
    model_files,         \* model_files[name]: state of the artifact file in model_dir
    models,              \* names of the models in self.models
    result,              \* the result dict of run_daily_prediction
    returncode,          \* exit status of the predictor process, NULL while it runs
    prediction_performance,  \* committed rows of prediction_performance
    performance_df,      \* the data frame handed to save_performance_metrics
    manager_pc,          \* where run_full_pipeline of the manager stands
    results,             \* the results dict of run_full_pipeline
    component_calls,     \* the run_component calls of the manager, in order
    collection_pc,       \* where run_daily_collection of the scheduler stands
    collection_result,   \* the result dict of run_daily_collection
    data_collection_log, \* committed rows of data_collection_log, by id
    alerts,              \* the subjects of the alert mails sent
    clock                \* datetime.now() of the scheduler, in seconds

\* the state of one run of the predictor process and of the evaluation
run_vars == <<model_files, models, result, returncode, prediction_performance,
              performance_df>>

\* the state of the production manager and of the collection scheduler
ops_vars == <<manager_pc, results, component_calls, collection_pc,
              collection_result, data_collection_log, alerts, clock>>

vars == <<today, lme_copper_futures, daily_predictions, pc, predictions,
          prediction_date, stmts, txn, runs, call, model_files, models, result,
          returncode, prediction_performance, performance_df, manager_pc,
          results, component_calls, collection_pc, collection_result,
          data_collection_log, alerts, clock>>

\* a conflict target that also lists days_ahead
ConflictKeyWithDaysAhead(r) ==
    <<r.prediction_date, r.target_date, r.contract_month, r.model_name, r.days_ahead>>

\* UNIQUE(prediction_date, target_date, contract_month, model_name), which is
\* also the ON CONFLICT target of save_predictions
ConflictKey(r) == <<r.prediction_date, r.target_date, r.contract_month, r.model_name>>

\* UNIQUE(trade_date, contract_month, ric); the collector has one ric per
\* contract month, so ric is left out
FuturesKey(f) == <<f.trade_date, f.contract_month>>

\* the row the VALUES clause of save_predictions proposes for one
\* (model_name, days_ahead, predicted_price); columns not listed are NULL
ProposedRow(pdate, model_name, days_ahead, predicted_price) ==
    [prediction_date  |-> pdate,
     target_date      |-> TargetDate(pdate, days_ahead),
     contract_month   |-> target_contract,
     days_ahead       |-> days_ahead,
     model_name       |-> model_name,
     predicted_price  |-> ToDecimal(predicted_price),
     actual_price     |-> NULL,
     prediction_error |-> NULL,
     model_version    |-> model_version,
     features_used    |-> feature_columns]

\* a DO UPDATE that replaces the whole row by the proposed one
DoUpdateSetAllColumns(r, new) == new

\* DO UPDATE SET predicted_price = EXCLUDED.predicted_price, model_version =
\* EXCLUDED.model_version, features_used = EXCLUDED.features_used
DoUpdateSet(r, new) ==
    [r EXCEPT !.predicted_price = new.predicted_price,
              !.model_version   = new.model_version,
              !.features_used   = new.features_used]

\* INSERT INTO daily_predictions ... ON CONFLICT (...) DO UPDATE SET ...
\* applied to the rows the statement sees
InsertOnConflict(table, new) ==
    IF \E r \in table : ConflictKey(r) = ConflictKey(new)
    THEN {IF ConflictKey(r) = ConflictKey(new) THEN DoUpdateSet(r, new) ELSE r : r \in table}
    ELSE table \cup {new}

RECURSIVE ModelStatements(_, _, _)
\* for days_ahead, predicted_price in enumerate(pred_list, 1), from days_ahead on
ModelStatements(model_name, pred_list, days_ahead) ==
    IF days_ahead > Len(pred_list) THEN <<>>
    ELSE <<[model_name |-> model_name, days_ahead |-> days_ahead,
            predicted_price |-> pred_list[days_ahead]]>>
         \o ModelStatements(model_name, pred_list, days_ahead + 1)

RECURSIVE Statements(_, _)
\* for model_name, pred_list in predictions.items(): the statements of
\* save_predictions in execution order
Statements(preds, order) ==
    IF order = <<>> THEN <<>>
    ELSE (IF Head(order) \in DOMAIN preds
          THEN ModelStatements(Head(order), preds[Head(order)], 1)
          ELSE <<>>)
         \o Statements(preds, Tail(order))

\* keys whose rows transaction q has written and not yet committed (row locks)
Locked(q) == {ConflictKey(w) : w \in txn[q]}

\* what a statement of p's transaction sees: committed rows and p's own writes
View(p) == {r \in daily_predictions : ConflictKey(r) \notin Locked(p)} \cup txn[p]

\* the UPDATE without "AND dp.actual_price IS NULL"
MatchesAlsoResolved(dp, f) ==
    /\ dp.target_date = f.trade_date
    /\ dp.contract_month = f.contract_month
    /\ f.close_price # NULL

\* the UPDATE without "AND f.close_price IS NOT NULL"
MatchesAlsoNullClose(dp, f) ==
    /\ dp.target_date = f.trade_date
    /\ dp.contract_month = f.contract_month
    /\ dp.actual_price = NULL

\* the join condition and filter of the UPDATE of update_actual_prices
Matches(dp, f) ==
    /\ dp.target_date = f.trade_date
    /\ dp.contract_month = f.contract_month
    /\ dp.actual_price = NULL
    /\ f.close_price # NULL

\* the SET clause without ABS
SetActualSigned(dp, f) ==
    [dp EXCEPT !.actual_price = f.close_price,
               !.prediction_error = dp.predicted_price - f.close_price]

\* SET actual_price = f.close_price,
\*     prediction_error = ABS(dp.predicted_price - f.close_price)
SetActual(dp, f) ==
    [dp EXCEPT !.actual_price = f.close_price,
               !.prediction_error = AbsDiff(dp.predicted_price, f.close_price)]

\* the new versions of the rows the UPDATE changes
UpdatedRows(table, futures) ==
    {SetActual(dp, CHOOSE f \in futures : Matches(dp, f)) :
        dp \in {r \in table : \E f \in futures : Matches(r, f)}}

\* INSERT INTO lme_copper_futures ... ON CONFLICT (trade_date, contract_month,
\* ric) DO UPDATE SET close_price = EXCLUDED.close_price, ...
save_futures_row(futures, new) ==
    {f \in futures : FuturesKey(f) # FuturesKey(new)} \cup {new}

(***************************************************************************)
(* Inputs                                                                  *)
(***************************************************************************)
\* a model that is not called or raises
NoOutcome == [models |-> {}, rf |-> RAISED, xgb |-> RAISED, arima |-> RAISED_LIST,
              prophet |-> RAISED_LIST]

\* the model environments of the runs against the store
RunInputs ==
    {[NoOutcome EXCEPT !.models = {"arima", "lstm"},
                       !.arima = <<Float(104, 1), Float(101, 1)>>],
     [NoOutcome EXCEPT !.models = {"random_forest", "arima"},
                       !.arima = <<Float(100, 1), Float(201, 2), Float(103, 1)>>],
     [NoOutcome EXCEPT !.models = {"lstm"}],
     NoOutcome}

\* len(data) of the runs: no rows, too few rows, enough rows
DataRowCases == {0, min_data_rows - 1, min_data_rows}

\* the rows the price feed delivers: closes of the first Monday after StartDay for
\* the 3M contract (a missing CLOSE is stored as NULL) and for the 1M contract
FeedRows ==
    {[trade_date |-> TargetDate(StartDay, 2), contract_month |-> target_contract,
      close_price |-> v] : v \in Closes \cup {NULL}}
    \cup {[trade_date |-> TargetDate(StartDay, 2), contract_month |-> 1,
           close_price |-> 104]}

(***************************************************************************)
(* run_daily_prediction, the 'update' command and their environment        *)
(***************************************************************************)
NoCall == [data_rows |-> 0, inp |-> NoOutcome, returned |-> FALSE, result |-> <<>>]

\* the keys of model_files in load_models, in iteration order
model_file_order == <<"random_forest", "xgboost", "arima", "lstm", "scaler">>

\* the result dict run_daily_prediction starts with
InitialResult(date) ==
    [success             |-> FALSE,
     prediction_date     |-> date,
     models_used         |-> <<>>,
     predictions_saved   |-> 0,
     performance_metrics |-> <<>>,
     errors              |-> <<>>]

\* no predictor process has run and nothing has been evaluated
IdleRun ==
    /\ model_files = [n \in {model_file_order[k] : k \in 1..Len(model_file_order)}
                        |-> "missing"]
    /\ models = {}
    /\ result = InitialResult(NULL)
    /\ returncode = NULL
    /\ prediction_performance = {}
    /\ performance_df = <<>>

\* results = {'data_collection': False, 'prediction': False, 'validation':
\* False, 'overall_success': False} of run_full_pipeline
InitialResults ==
    [data_collection |-> FALSE,
     prediction      |-> FALSE,
     validation      |-> FALSE,
     overall_success |-> FALSE]

\* the result dict run_daily_collection starts with at start_time
InitialCollectionResult(start_time) ==
    [success             |-> FALSE,
     start_time          |-> start_time,
     end_time            |-> NULL,
     duration            |-> NULL,
     records_collected   |-> 0,
     contracts_processed |-> 0,
     errors              |-> <<>>,
     warnings            |-> <<>>]

\* the manager has not run a pipeline and the scheduler has not collected
IdleOps ==
    /\ manager_pc = "idle"
    /\ results = InitialResults
    /\ component_calls = <<>>
    /\ collection_pc = "idle"
    /\ collection_result = InitialCollectionResult(NULL)
    /\ data_collection_log = <<>>
    /\ alerts = <<>>
    /\ clock = 0

Init ==
    /\ today = StartDay
    /\ lme_copper_futures = {}
    /\ daily_predictions = {}
    /\ pc = [p \in Procs |-> "idle"]
    /\ predictions = [p \in Procs |-> <<>>]
    /\ prediction_date = [p \in Procs |-> NULL]
    /\ stmts = [p \in Procs |-> <<>>]
    /\ txn = [p \in Procs |-> {}]
    /\ runs = 0
    /\ call = NoCall
    /\ IdleRun
    /\ IdleOps

\* the scheduler starts a command in a free process slot; the slots are
\* interchangeable, so it takes the lowest free one
CanStart(p) == pc[p] = "idle" /\ \A q \in Procs : q < p => pc[q] # "idle"

\* run_daily_prediction up to the call of save_predictions: create tables,
\* load models, get data, make predictions; each failure returns early
StartPredict(p) ==
    /\ CanStart(p)
    /\ runs < MaxRuns
    /\ runs' = runs + 1
    /\ \E tables_ok \in BOOLEAN, inp \in RunInputs, data_rows \in DataRowCases :
         LET preds == make_predictions(data_rows, inp)
         IN  IF tables_ok /\ inp.models # {} /\ data_rows > 0 /\ DOMAIN preds # {}
             THEN /\ pc' = [pc EXCEPT ![p] = "save"]
                  /\ predictions' = [predictions EXCEPT ![p] = preds]
                  /\ prediction_date' = [prediction_date EXCEPT ![p] = today]
                  /\ stmts' = [stmts EXCEPT ![p] = Statements(preds, ModelOrder)]
             ELSE UNCHANGED <<pc, predictions, prediction_date, stmts>>
    /\ UNCHANGED <<run_vars, ops_vars>>
    /\ UNCHANGED <<today, lme_copper_futures, daily_predictions, txn, call>>

\* one cursor.execute(insert_sql, ...) of save_predictions; it waits while
\* another open transaction holds the row of the same key, and the row
\* version it writes stays locked until the transaction ends, also when it
\* equals the committed one
ExecuteInsert(p) ==
    /\ pc[p] = "save"
    /\ stmts[p] # <<>>
    /\ LET s   == Head(stmts[p])
           new == ProposedRow(prediction_date[p], s.model_name, s.days_ahead,
                              s.predicted_price)
       IN  /\ \A q \in Procs \ {p} : ConflictKey(new) \notin Locked(q)
           /\ txn' = [txn EXCEPT ![p] =
                         {r \in InsertOnConflict(View(p), new) :
                             ConflictKey(r) \in Locked(p) \cup {ConflictKey(new)}}]
    /\ stmts' = [stmts EXCEPT ![p] = Tail(stmts[p])]
    /\ UNCHANGED <<run_vars, ops_vars>>
    /\ UNCHANGED <<today, lme_copper_futures, daily_predictions, pc, predictions,
                   prediction_date, runs, call>>

\* conn.commit() of save_predictions; the run goes on to update_actual_prices
CommitSave(p) ==
    /\ pc[p] = "save"
    /\ stmts[p] = <<>>
    /\ daily_predictions' = View(p)
    /\ txn' = [txn EXCEPT ![p] = {}]
    /\ pc' = [pc EXCEPT ![p] = "update"]
    /\ predictions' = [predictions EXCEPT ![p] = <<>>]
    /\ prediction_date' = [prediction_date EXCEPT ![p] = NULL]
    /\ UNCHANGED <<run_vars, ops_vars>>
    /\ UNCHANGED <<today, lme_copper_futures, stmts, runs, call>>

\* a failing save_predictions on a connection in autocommit mode: the
\* statements executed before the failure stay in the table
FailSaveKeepingWrites(p) ==
    /\ pc[p] = "save"
    /\ daily_predictions' = View(p)
    /\ txn' = [txn EXCEPT ![p] = {}]
    /\ stmts' = [stmts EXCEPT ![p] = <<>>]
    /\ pc' = [pc EXCEPT ![p] = "update"]
    /\ predictions' = [predictions EXCEPT ![p] = <<>>]
    /\ prediction_date' = [prediction_date EXCEPT ![p] = NULL]
    /\ UNCHANGED <<run_vars, ops_vars>>
    /\ UNCHANGED <<today, lme_copper_futures, runs, call>>

\* save_predictions raises (connect, execute or commit fails): nothing is
\* committed, it returns False and run_daily_prediction carries on
FailSave(p) ==
    /\ pc[p] = "save"
    /\ txn' = [txn EXCEPT ![p] = {}]
    /\ stmts' = [stmts EXCEPT ![p] = <<>>]
    /\ pc' = [pc EXCEPT ![p] = "update"]
    /\ predictions' = [predictions EXCEPT ![p] = <<>>]
    /\ prediction_date' = [prediction_date EXCEPT ![p] = NULL]
    /\ UNCHANGED <<run_vars, ops_vars>>
    /\ UNCHANGED <<today, lme_copper_futures, daily_predictions, runs, call>>

\* main() with the command 'update': update_actual_prices alone
StartUpdate(p) ==
    /\ CanStart(p)
    /\ runs < MaxRuns
    /\ runs' = runs + 1
    /\ pc' = [pc EXCEPT ![p] = "update"]
    /\ UNCHANGED <<run_vars, ops_vars>>
    /\ UNCHANGED <<today, lme_copper_futures, daily_predictions, predictions,
                   prediction_date, stmts, txn, call>>

\* cursor.execute(update_sql) of update_actual_prices; it waits while a row
\* it has to change is held by another open transaction
ExecuteUpdate(p) ==
    /\ pc[p] = "update"
    /\ LET upd == UpdatedRows(daily_predictions, lme_copper_futures)
       IN  /\ \A q \in Procs \ {p} : {ConflictKey(r) : r \in upd} \cap Locked(q) = {}
           /\ txn' = [txn EXCEPT ![p] = upd]
    /\ pc' = [pc EXCEPT ![p] = "update_commit"]
    /\ UNCHANGED <<run_vars, ops_vars>>
    /\ UNCHANGED <<today, lme_copper_futures, daily_predictions, predictions,
                   prediction_date, stmts, runs, call>>

\* conn.commit() of update_actual_prices
CommitUpdate(p) ==
    /\ pc[p] = "update_commit"
    /\ daily_predictions' = View(p)
    /\ txn' = [txn EXCEPT ![p] = {}]
    /\ pc' = [pc EXCEPT ![p] = "idle"]
    /\ UNCHANGED <<run_vars, ops_vars>>
    /\ UNCHANGED <<today, lme_copper_futures, predictions, prediction_date, stmts,
                   runs, call>>

\* update_actual_prices raises: nothing is committed, it returns False
FailUpdate(p) ==
    /\ pc[p] \in {"update", "update_commit"}
    /\ txn' = [txn EXCEPT ![p] = {}]
    /\ pc' = [pc EXCEPT ![p] = "idle"]
    /\ UNCHANGED <<run_vars, ops_vars>>
    /\ UNCHANGED <<today, lme_copper_futures, daily_predictions, predictions,
                   prediction_date, stmts, runs, call>>

\* the scheduler terminates the process: its open transaction is rolled back
Terminate(p) ==
    /\ pc[p] # "idle"
    /\ txn' = [txn EXCEPT ![p] = {}]
    /\ stmts' = [stmts EXCEPT ![p] = <<>>]
    /\ pc' = [pc EXCEPT ![p] = "idle"]
    /\ predictions' = [predictions EXCEPT ![p] = <<>>]
    /\ prediction_date' = [prediction_date EXCEPT ![p] = NULL]
    /\ UNCHANGED <<run_vars, ops_vars>>
    /\ UNCHANGED <<today, lme_copper_futures, daily_predictions, runs, call>>

\* midnight passes (once within the modelled window)
Tick ==
    /\ today = StartDay
    /\ today' = today + 1
    /\ UNCHANGED <<run_vars, ops_vars>>
    /\ UNCHANGED <<lme_copper_futures, daily_predictions, pc, predictions,
                   prediction_date, stmts, txn, runs, call>>

\* save_futures_data of the collector commits one row of the upstream feed
FeedUpsert ==
    /\ \E new \in FeedRows :
         lme_copper_futures' = save_futures_row(lme_copper_futures, new)
    /\ UNCHANGED <<run_vars, ops_vars>>
    /\ UNCHANGED <<today, daily_predictions, pc, predictions, prediction_date,
                   stmts, txn, runs, call>>

Next ==
    \/ \E p \in Procs : StartPredict(p)
    \/ \E p \in Procs : ExecuteInsert(p)
    \/ \E p \in Procs : CommitSave(p)
    \/ \E p \in Procs : FailSave(p)
    \/ \E p \in Procs : StartUpdate(p)
    \/ \E p \in Procs : ExecuteUpdate(p)
    \/ \E p \in Procs : CommitUpdate(p)
    \/ \E p \in Procs : FailUpdate(p)
    \/ \E p \in Procs : Terminate(p)
    \/ Tick
    \/ FeedUpsert

Spec == Init /\ [][Next]_vars

(***************************************************************************)
(* One issuance on its own: make_predictions and save_predictions of a     *)
(* single run into an empty daily_predictions, over a wide range of model  *)
(* outputs and every day of the week                                       *)
(***************************************************************************)
RECURSIVE SaveAll(_, _, _)
\* the loop of save_predictions run to its end on the rows it sees
SaveAll(table, statements, pdate) ==
    IF statements = <<>> THEN table
    ELSE LET s == Head(statements)
         IN  SaveAll(InsertOnConflict(table,
                         ProposedRow(pdate, s.model_name, s.days_ahead, s.predicted_price)),
                     Tail(statements), pdate)

\* forecasts of the ARIMA artifact: every prefix of two series
ArimaSeries ==
    {<<Float(100, 1), Float(101, 1), Float(102, 1), Float(201, 2), Float(98, 1)>>,
     <<Float(104, 1), Float(104, 1), Float(100, 1), Float(97, 1), Float(205, 2)>>}

ArimaOutcomes ==
    {RAISED_LIST} \cup {SubSeq(a, 1, n) : a \in ArimaSeries, n \in 0..prediction_horizon}

\* the environments of a single make_predictions call
CallInputs ==
    [models : SUBSET LoadableModels,
     rf : {RAISED, Float(102, 1), Float(100, 1)},
     xgb : {RAISED, Float(101, 1)},
     arima : ArimaOutcomes,
     prophet : {RAISED_LIST}]

InitIssue ==
    /\ today \in 0..6
    /\ lme_copper_futures = {}
    /\ daily_predictions = {}
    /\ pc = [p \in Procs |-> "idle"]
    /\ predictions = [p \in Procs |-> <<>>]
    /\ prediction_date = [p \in Procs |-> NULL]
    /\ stmts = [p \in Procs |-> <<>>]
    /\ txn = [p \in Procs |-> {}]
    /\ runs = 0
    /\ call \in [data_rows : DataRowCases, inp : CallInputs, returned : {FALSE},
                 result : {<<>>}]
    /\ IdleRun
    /\ IdleOps

\* predictions = self.make_predictions(data); if predictions:
\* self.save_predictions(predictions, datetime.now()), without failures
IssueCall ==
    /\ ~call.returned
    /\ LET preds == make_predictions(call.data_rows, call.inp)
       IN  /\ call' = [call EXCEPT !.returned = TRUE, !.result = preds]
           /\ daily_predictions' =
                 IF DOMAIN preds # {}
                 THEN SaveAll(daily_predictions, Statements(preds, ModelOrder), today)
                 ELSE daily_predictions
    /\ UNCHANGED <<run_vars, ops_vars>>
    /\ UNCHANGED <<today, lme_copper_futures, pc, predictions, prediction_date,
                   stmts, txn, runs>>

NextIssue == IssueCall

SpecIssue == InitIssue /\ [][NextIssue]_vars

(***************************************************************************)
(* One run of the predictor process with the command 'predict': main,      *)
(* run_daily_prediction step by step, and the exit of the process          *)
(***************************************************************************)
RECURSIVE LoadFiles(_, _, _)
\* the loop of load_models from the files of order on, loaded being the keys
\* of self.models so far: a missing file is skipped, a failure to load the
\* lstm file is caught inside the loop, any other failure leaves the loop
\* for the outer except, which returns False
LoadFiles(files, order, loaded) ==
    IF order = <<>> THEN [models |-> loaded, ok |-> loaded # {}]
    ELSE LET name == Head(order)
         IN  IF files[name] = "missing"
             THEN LoadFiles(files, Tail(order), loaded)
             ELSE IF name = "lstm"
             THEN LoadFiles(files, Tail(order),
                            IF files[name] = "readable" THEN loaded \cup {name}
                            ELSE loaded)
             ELSE IF files[name] = "corrupt"
             THEN [models |-> loaded, ok |-> FALSE]
             ELSE LoadFiles(files, Tail(order),
                            IF name = "scaler" THEN loaded ELSE loaded \cup {name})

\* load_models(): the keys of self.models afterwards and the value returned
load_models(files) == LoadFiles(files, model_file_order, {})

\* list(predictions.keys())
KeysList(preds) == SelectSeq(ModelOrder, LAMBDA m : m \in DOMAIN preds)

\* the table after the UPDATE of update_actual_prices has been committed
ReconciledTable(table, futures) ==
    {r \in table : \A f \in futures : ~Matches(r, f)} \cup UpdatedRows(table, futures)

\* a return that leaves the errors list as it is
ReturnWithoutError(message) ==
    /\ result' = result
    /\ pc' = [pc EXCEPT ![1] = "returned"]

\* result['errors'].append(message); return result
ReturnError(message) ==
    /\ result' = [result EXCEPT !.errors = Append(@, message)]
    /\ pc' = [pc EXCEPT ![1] = "returned"]

\* main() with the command 'predict' in a fresh process: the constructor and
\* the first lines of run_daily_prediction
MainPredict ==
    /\ pc[1] = "idle"
    /\ runs = 0
    /\ runs' = 1
    /\ models' = {}
    /\ result' = InitialResult(today)
    /\ pc' = [pc EXCEPT ![1] = "create_prediction_tables"]
    /\ UNCHANGED ops_vars
    /\ UNCHANGED <<today, lme_copper_futures, daily_predictions, predictions,
                   prediction_date, stmts, txn, call, model_files, returncode,
                   prediction_performance, performance_df>>

\* if not self.create_prediction_tables(): ... return result
CreatePredictionTables ==
    /\ pc[1] = "create_prediction_tables"
    /\ \E ok \in BOOLEAN :
         IF ok THEN /\ pc' = [pc EXCEPT ![1] = "load_models"]
                    /\ UNCHANGED result
         ELSE ReturnError("Failed to create prediction tables")
    /\ UNCHANGED ops_vars
    /\ UNCHANGED <<today, lme_copper_futures, daily_predictions, predictions,
                   prediction_date, stmts, txn, runs, call, model_files, models,
                   returncode, prediction_performance, performance_df>>

\* if not self.load_models(): ... return result
LoadModels ==
    /\ pc[1] = "load_models"
    /\ models' = load_models(model_files).models
    /\ IF load_models(model_files).ok
       THEN /\ pc' = [pc EXCEPT ![1] = "get_latest_data"]
            /\ UNCHANGED result
       ELSE ReturnError("Failed to load models")
    /\ UNCHANGED ops_vars
    /\ UNCHANGED <<today, lme_copper_futures, daily_predictions, predictions,
                   prediction_date, stmts, txn, runs, call, model_files,
                   returncode, prediction_performance, performance_df>>

\* data = self.get_latest_data(); if data.empty: ... return result
GetLatestData ==
    /\ pc[1] = "get_latest_data"
    /\ IF call.data_rows > 0
       THEN /\ pc' = [pc EXCEPT ![1] = "make_predictions"]
            /\ UNCHANGED result
       ELSE ReturnError("Failed to get latest data")
    /\ UNCHANGED ops_vars
    /\ UNCHANGED <<today, lme_copper_futures, daily_predictions, predictions,
                   prediction_date, stmts, txn, runs, call, model_files, models,
                   returncode, prediction_performance, performance_df>>

\* predictions = self.make_predictions(data); if not predictions: ... return
\* result; result['models_used'] = list(predictions.keys())
MakePredictions ==
    /\ pc[1] = "make_predictions"
    /\ LET preds == make_predictions(call.data_rows,
                                     [call.inp EXCEPT !.models = models])
       IN  IF DOMAIN preds # {}
           THEN /\ predictions' = [predictions EXCEPT ![1] = preds]
                /\ result' = [result EXCEPT !.models_used = KeysList(preds)]
                /\ pc' = [pc EXCEPT ![1] = "save_predictions"]
           ELSE /\ ReturnError("Failed to generate predictions")
                /\ UNCHANGED predictions
    /\ UNCHANGED ops_vars
    /\ UNCHANGED <<today, lme_copper_futures, daily_predictions, prediction_date,
                   stmts, txn, runs, call, model_files, models, returncode,
                   prediction_performance, performance_df>>

\* if self.save_predictions(predictions, datetime.now()):
\*     result['predictions_saved'] = len(predictions) * self.prediction_horizon
\* save_predictions commits every statement and returns True, or raises
\* before its commit and returns False
SavePredictions ==
    /\ pc[1] = "save_predictions"
    /\ \E saved \in BOOLEAN :
         IF saved
         THEN /\ daily_predictions' =
                    SaveAll(daily_predictions,
                            Statements(predictions[1], ModelOrder), today)
              /\ result' = [result EXCEPT !.predictions_saved =
                               Cardinality(DOMAIN predictions[1]) * prediction_horizon]
         ELSE UNCHANGED <<daily_predictions, result>>
    /\ pc' = [pc EXCEPT ![1] = "update_actual_prices"]
    /\ UNCHANGED ops_vars
    /\ UNCHANGED <<today, lme_copper_futures, predictions, prediction_date, stmts,
                   txn, runs, call, model_files, models, returncode,
                   prediction_performance, performance_df>>

\* self.update_actual_prices(): the value returned is not looked at
UpdateActualPrices ==
    /\ pc[1] = "update_actual_prices"
    /\ \E updated \in BOOLEAN :
         daily_predictions' = IF updated
                              THEN ReconciledTable(daily_predictions, lme_copper_futures)
                              ELSE daily_predictions
    /\ pc' = [pc EXCEPT ![1] = "evaluate_model_performance"]
    /\ UNCHANGED ops_vars
    /\ UNCHANGED <<today, lme_copper_futures, predictions, prediction_date, stmts,
                   txn, runs, call, model_files, models, result, returncode,
                   prediction_performance, performance_df>>

\* result['performance_metrics'] = self.evaluate_model_performance();
\* result['success'] = True.  The SELECT of evaluate_model_performance calls
\* the window function LAG(...) OVER (...) inside the aggregate AVG(...);
\* PostgreSQL rejects such a statement when it analyses it ("aggregate
\* function calls cannot contain window function calls"), whatever the
\* tables hold, so pd.read_sql_query raises, save_performance_metrics is not
\* reached and the except branch returns {}
EvaluateModelPerformance ==
    /\ pc[1] = "evaluate_model_performance"
    /\ result' = [result EXCEPT !.performance_metrics = <<>>, !.success = TRUE]
    /\ pc' = [pc EXCEPT ![1] = "returned"]
    /\ UNCHANGED ops_vars
    /\ UNCHANGED <<today, lme_copper_futures, daily_predictions, predictions,
                   prediction_date, stmts, txn, runs, call, model_files, models,
                   returncode, prediction_performance, performance_df>>

\* the steps inside the try block of run_daily_prediction, in their order
run_steps ==
    <<"create_prediction_tables", "load_models", "get_latest_data",
      "make_predictions", "save_predictions", "update_actual_prices",
      "evaluate_model_performance">>

\* except Exception as e: result['errors'].append(f"Unexpected error: ...");
\* return result.  An exception that escapes from the code of a step: the
\* functions called catch and roll back their own failures, so the tables
\* are as the last completed step left them
UnexpectedError ==
    /\ \E k \in 1..Len(run_steps) : pc[1] = run_steps[k]
    /\ ReturnError("Unexpected error")
    /\ UNCHANGED ops_vars
    /\ UNCHANGED <<today, lme_copper_futures, daily_predictions, predictions,
                   prediction_date, stmts, txn, runs, call, model_files, models,
                   returncode, prediction_performance, performance_df>>

\* main() prints the result and ends without sys.exit: the exit status is 0
MainExit ==
    /\ pc[1] = "returned"
    /\ returncode' = 0
    /\ pc' = [pc EXCEPT ![1] = "exited"]
    /\ UNCHANGED ops_vars
    /\ UNCHANGED <<today, lme_copper_futures, daily_predictions, predictions,
                   prediction_date, stmts, txn, runs, call, model_files, models,
                   result, prediction_performance, performance_df>>

\* 'success': result.returncode == 0 in run_component, which is what
\* run_prediction returns
run_component_success(rc) == rc = 0

\* the states of the five artifact files
RunModelFiles ==
    [{model_file_order[k] : k \in 1..Len(model_file_order)}
        -> {"readable", "missing", "corrupt"}]

\* forecasts of the ARIMA artifact in a run: it raises, or returns an empty
\* list, a list with a NaN, or five values
RunArimaOutcomes ==
    {RAISED_LIST, <<>>, <<Float(100, 1), Float(102, 1), NaN>>,
     <<Float(100, 1), Float(101, 1), Float(102, 1), Float(201, 2), Float(98, 1)>>}

\* the adapter outcomes of a run; the loaded models come from load_models
RunCallInputs ==
    [models : {{}},
     rf : {RAISED, Float(102, 1)},
     xgb : {Float(101, 1)},
     arima : RunArimaOutcomes,
     prophet : {RAISED_LIST}]

\* what the price feed has stored before the run: nothing, or 3M closes for
\* the next two business days after StartDay, one of them 0
RunFeedCases ==
    {{},
     {[trade_date |-> TargetDate(StartDay, 1), contract_month |-> target_contract,
       close_price |-> 100],
      [trade_date |-> TargetDate(TargetDate(StartDay, 1), 1),
       contract_month |-> target_contract, close_price |-> 0]}}

InitRun ==
    /\ today = StartDay
    /\ lme_copper_futures \in RunFeedCases
    /\ daily_predictions = {}
    /\ pc = [p \in Procs |-> "idle"]
    /\ predictions = [p \in Procs |-> <<>>]
    /\ prediction_date = [p \in Procs |-> NULL]
    /\ stmts = [p \in Procs |-> <<>>]
    /\ txn = [p \in Procs |-> {}]
    /\ runs = 0
    /\ call \in [data_rows : DataRowCases, inp : RunCallInputs, returned : {FALSE},
                 result : {<<>>}]
    /\ model_files \in RunModelFiles
    /\ models = {}
    /\ result = InitialResult(NULL)
    /\ returncode = NULL
    /\ prediction_performance = {}
    /\ performance_df = <<>>
    /\ IdleOps

NextRun ==
    \/ MainPredict
    \/ CreatePredictionTables
    \/ LoadModels
    \/ GetLatestData
    \/ MakePredictions
    \/ SavePredictions
    \/ UpdateActualPrices
    \/ EvaluateModelPerformance
    \/ UnexpectedError
    \/ MainExit

SpecRun == InitRun /\ [][NextRun]_vars

(***************************************************************************)
(* save_performance_metrics on its own: the function applied to data       *)
(* frames of metric rows, on one day and the next                          *)
(***************************************************************************)
\* a None cell of a data frame: no float
None == <<0, 0>>

\* float -> DECIMAL(p, s) of a metric column holding scale units per unit of
\* the float: rounds half away from zero (values are non-negative) and
\* accepts NaN
ToNumeric(f, scale) ==
    IF f = NaN THEN NUMERIC_NaN ELSE (2 * scale * f[1] + f[2]) \div (2 * f[2])

\* "float(row[col]) if row[col] else None" stored in a metric column: None
\* and 0.0 are falsy and give NULL, every other float (NaN too) is stored
MetricColumn(v, scale) ==
    IF v = None \/ v = <<0, 1>> THEN NULL ELSE ToNumeric(v, scale)

\* UNIQUE(evaluation_date, model_name, contract_month, days_ahead), also the
\* ON CONFLICT target of save_performance_metrics
PerformanceKey(q) == <<q.evaluation_date, q.model_name, q.contract_month, q.days_ahead>>

\* the row the VALUES clause of save_performance_metrics proposes for one row
\* of the frame: mae and rmse are DECIMAL(12,6) (100 units per tick), mape
\* is DECIMAL(8,4) and directional_accuracy DECIMAL(6,4)
PerformanceRow(date, row) ==
    [evaluation_date      |-> date,
     model_name           |-> row.model_name,
     contract_month       |-> target_contract,
     days_ahead           |-> row.days_ahead,
     mae                  |-> MetricColumn(row.mae, 100),
     rmse                 |-> MetricColumn(row.rmse, 100),
     mape                 |-> MetricColumn(row.mape, 10000),
     directional_accuracy |-> MetricColumn(row.directional_accuracy, 10000),
     total_predictions    |-> row.total_predictions]

\* a DO UPDATE that adds the new sample count to the stored one
PerformanceDoUpdateAccumulating(q, new) ==
    [new EXCEPT !.total_predictions = q.total_predictions + new.total_predictions]

\* DO UPDATE SET mae = EXCLUDED.mae, rmse = EXCLUDED.rmse, mape =
\* EXCLUDED.mape, directional_accuracy = EXCLUDED.directional_accuracy,
\* total_predictions = EXCLUDED.total_predictions
PerformanceDoUpdateSet(q, new) ==
    [q EXCEPT !.mae = new.mae,
              !.rmse = new.rmse,
              !.mape = new.mape,
              !.directional_accuracy = new.directional_accuracy,
              !.total_predictions = new.total_predictions]

\* INSERT INTO prediction_performance ... ON CONFLICT (...) DO UPDATE SET ...
InsertPerformance(table, new) ==
    IF \E q \in table : PerformanceKey(q) = PerformanceKey(new)
    THEN {IF PerformanceKey(q) = PerformanceKey(new)
          THEN PerformanceDoUpdateSet(q, new) ELSE q : q \in table}
    ELSE table \cup {new}

RECURSIVE save_performance_metrics(_, _, _)
\* for _, row in performance_df.iterrows(): cursor.execute(insert_sql, ...)
\* with datetime.now().date() = date, on the rows the transaction sees
save_performance_metrics(table, df, date) ==
    IF df = <<>> THEN table
    ELSE save_performance_metrics(InsertPerformance(table, PerformanceRow(date, Head(df))),
                                  Tail(df), date)

\* the metric values of a frame row: all 0, ordinary values, values with an
\* undefined mape (None) and an undefined directional accuracy (NaN), and a
\* second set of ordinary values
MetricCases ==
    {[mae |-> Float(0, 1), rmse |-> Float(0, 1), mape |-> Float(0, 1),
      directional_accuracy |-> Float(0, 1), total_predictions |-> 1],
     [mae |-> Float(3, 2), rmse |-> Float(2, 1), mape |-> Float(5, 4),
      directional_accuracy |-> Float(1, 2), total_predictions |-> 3],
     [mae |-> Float(2, 1), rmse |-> Float(5, 2), mape |-> None,
      directional_accuracy |-> NaN, total_predictions |-> 2]}

\* a frame row of group (model_name, days_ahead) with the metrics of c
FrameRow(model_name, days_ahead, c) ==
    [model_name |-> model_name, days_ahead |-> days_ahead, mae |-> c.mae,
     rmse |-> c.rmse, mape |-> c.mape,
     directional_accuracy |-> c.directional_accuracy,
     total_predictions |-> c.total_predictions]

\* the frames handed to save_performance_metrics: one row per group, ordered
\* by model_name and days_ahead as the query orders them
PerformanceFrames ==
    {<<>>}
    \cup {<<FrameRow("arima", 1, c)>> : c \in MetricCases}
    \cup {<<FrameRow("ensemble", 2, c)>> : c \in MetricCases}
    \cup {<<FrameRow("arima", 1, c1), FrameRow("ensemble", 2, c2)>> :
             c1 \in MetricCases, c2 \in MetricCases}

\* one call of save_performance_metrics(performance_df): every row is
\* upserted and the transaction committed, or an exception is logged and
\* nothing is committed
SavePerformanceMetrics ==
    /\ \E df \in PerformanceFrames, committed \in BOOLEAN :
         /\ performance_df' = df
         /\ prediction_performance' =
               IF committed
               THEN save_performance_metrics(prediction_performance, df, today)
               ELSE prediction_performance
    /\ UNCHANGED ops_vars
    /\ UNCHANGED <<today, lme_copper_futures, daily_predictions, pc, predictions,
                   prediction_date, stmts, txn, runs, call, model_files, models,
                   result, returncode>>

NextMetrics ==
    \/ SavePerformanceMetrics
    \/ Tick

SpecMetrics == Init /\ [][NextMetrics]_vars

(***************************************************************************)
(* run_full_pipeline of the production manager: the components are run as  *)
(* child processes, the predictor being the process of the run above        *)
(***************************************************************************)
\* results['overall_success'] = results['data_collection'] and
\* results['prediction'], with the validation outcome as well
overall_success_with_validation(r) ==
    r.data_collection /\ r.prediction /\ r.validation

\* results['overall_success'] = results['data_collection'] and
\* results['prediction']
overall_success(r) == r.data_collection /\ r.prediction

\* what run_component can get back from a component it does not wait for
\* step by step: the exit status 0 or 1 of the child, or none (the script is
\* not found, or subprocess.run raises or times out)
ComponentOutcomes == {NULL, 0, 1}

\* run_full_pipeline(): the results dict is set up
RunFullPipeline ==
    /\ manager_pc = "idle"
    /\ results' = InitialResults
    /\ manager_pc' = "run_data_collection"
    /\ UNCHANGED <<component_calls, collection_pc, collection_result,
                   data_collection_log, alerts, clock>>
    /\ UNCHANGED <<run_vars, today, lme_copper_futures, daily_predictions, pc,
                   predictions, prediction_date, stmts, txn, runs, call>>

\* results['data_collection'] = self.run_data_collection(), which is
\* run_component('scheduler', ['collect'])['success'];
\* if results['data_collection']: ... run_prediction
RunDataCollection ==
    /\ manager_pc = "run_data_collection"
    /\ component_calls' = Append(component_calls, <<"scheduler", "collect">>)
    /\ \E rc \in ComponentOutcomes :
         /\ results' = [results EXCEPT !.data_collection = run_component_success(rc)]
         /\ manager_pc' = IF run_component_success(rc) THEN "run_prediction"
                          ELSE "run_validation"
    /\ UNCHANGED <<collection_pc, collection_result, data_collection_log, alerts,
                   clock>>
    /\ UNCHANGED <<run_vars, today, lme_copper_futures, daily_predictions, pc,
                   predictions, prediction_date, stmts, txn, runs, call>>

\* self.run_prediction() calls run_component('predictor', ['predict']): the
\* child process is started, or it is not (script not found, or
\* subprocess.run raises) and run_prediction returns False
StartPrediction ==
    /\ manager_pc = "run_prediction"
    /\ component_calls' = Append(component_calls, <<"predictor", "predict">>)
    /\ \E started \in BOOLEAN :
         IF started
         THEN /\ manager_pc' = "prediction_running"
              /\ UNCHANGED results
         ELSE /\ manager_pc' = "run_validation"
              /\ results' = [results EXCEPT !.prediction = FALSE]
    /\ UNCHANGED <<collection_pc, collection_result, data_collection_log, alerts,
                   clock>>
    /\ UNCHANGED <<run_vars, today, lme_copper_futures, daily_predictions, pc,
                   predictions, prediction_date, stmts, txn, runs, call>>

\* a step of the predictor child while subprocess.run waits for it
PredictorStep ==
    /\ manager_pc = "prediction_running"
    /\ NextRun

\* subprocess.run returns with the exit status of the child:
\* 'success': result.returncode == 0
FinishPrediction ==
    /\ manager_pc = "prediction_running"
    /\ pc[1] = "exited"
    /\ results' = [results EXCEPT !.prediction = run_component_success(returncode)]
    /\ manager_pc' = "run_validation"
    /\ UNCHANGED <<component_calls, collection_pc, collection_result,
                   data_collection_log, alerts, clock>>
    /\ UNCHANGED <<run_vars, today, lme_copper_futures, daily_predictions, pc,
                   predictions, prediction_date, stmts, txn, runs, call>>

\* except subprocess.TimeoutExpired: the child is killed between two of its
\* steps and run_prediction returns False
PredictionTimeout ==
    /\ manager_pc = "prediction_running"
    /\ pc[1] # "exited"
    /\ pc' = [pc EXCEPT ![1] = "killed"]
    /\ results' = [results EXCEPT !.prediction = FALSE]
    /\ manager_pc' = "run_validation"
    /\ UNCHANGED <<component_calls, collection_pc, collection_result,
                   data_collection_log, alerts, clock>>
    /\ UNCHANGED <<run_vars, today, lme_copper_futures, daily_predictions,
                   predictions, prediction_date, stmts, txn, runs, call>>

\* results['validation'] = self.run_validation(), which is
\* run_component('scheduler', ['validate'])['success']; then
\* results['overall_success'] = ...; return results
RunValidation ==
    /\ manager_pc = "run_validation"
    /\ component_calls' = Append(component_calls, <<"scheduler", "validate">>)
    /\ \E rc \in ComponentOutcomes :
         LET validated == [results EXCEPT !.validation = run_component_success(rc)]
         IN  results' = [validated EXCEPT !.overall_success = overall_success(validated)]
    /\ manager_pc' = "returned"
    /\ UNCHANGED <<collection_pc, collection_result, data_collection_log, alerts,
                   clock>>
    /\ UNCHANGED <<run_vars, today, lme_copper_futures, daily_predictions, pc,
                   predictions, prediction_date, stmts, txn, runs, call>>

\* the artifact files of a pipeline run: all five readable, only the random
\* forest and it readable or corrupt, or none
PipelineModelFiles ==
    {[n \in {model_file_order[k] : k \in 1..Len(model_file_order)} |-> "readable"],
     [n \in {model_file_order[k] : k \in 1..Len(model_file_order)} |->
         IF n = "random_forest" THEN "readable" ELSE "missing"],
     [n \in {model_file_order[k] : k \in 1..Len(model_file_order)} |->
         IF n = "random_forest" THEN "corrupt" ELSE "missing"],
     [n \in {model_file_order[k] : k \in 1..Len(model_file_order)} |-> "missing"]}

InitPipeline ==
    /\ today = StartDay
    /\ lme_copper_futures \in RunFeedCases
    /\ daily_predictions = {}
    /\ pc = [p \in Procs |-> "idle"]
    /\ predictions = [p \in Procs |-> <<>>]
    /\ prediction_date = [p \in Procs |-> NULL]
    /\ stmts = [p \in Procs |-> <<>>]
    /\ txn = [p \in Procs |-> {}]
    /\ runs = 0
    /\ call \in [data_rows : DataRowCases, inp : RunCallInputs, returned : {FALSE},
                 result : {<<>>}]
    /\ model_files \in PipelineModelFiles
    /\ models = {}
    /\ result = InitialResult(NULL)
    /\ returncode = NULL
    /\ prediction_performance = {}
    /\ performance_df = <<>>
    /\ IdleOps

NextPipeline ==
    \/ RunFullPipeline
    \/ RunDataCollection
    \/ StartPrediction
    \/ PredictorStep
    \/ FinishPrediction
    \/ PredictionTimeout
    \/ RunValidation

SpecPipeline == InitPipeline /\ [][NextPipeline]_vars

(***************************************************************************)
(* run_daily_collection of the scheduler, step by step, on the days the    *)
(* schedule calls it                                                        *)
(***************************************************************************)
\* finally: result['end_time'] = datetime.now(); result['duration'] =
\* (result['end_time'] - result['start_time']).total_seconds()
Finally(r, now) ==
    [r EXCEPT !.end_time = now, !.duration = now - r.start_time]

\* the steps inside the try block of run_daily_collection
collection_steps == {"initialize_eikon", "connect_database", "collect_all_futures_data"}

\* the record_count of each contract in get_futures_summary()['summary']:
\* no summary (the query failed or found nothing), one contract, two
SummaryCases == {<<>>, <<3>>, <<3, 2>>}

\* sum(info['record_count'] for info in summary['summary'].values())
RECURSIVE SumRecordCounts(_)
SumRecordCounts(summary) ==
    IF summary = <<>> THEN 0 ELSE Head(summary) + SumRecordCounts(Tail(summary))

\* the seconds a step of the collection may take
StepSeconds == {0, 1}

\* run_daily_collection(): start_time = datetime.now() and the result dict
RunDailyCollection ==
    /\ collection_pc \in {"idle", "returned"}
    /\ runs < MaxRuns
    /\ runs' = runs + 1
    /\ collection_result' = InitialCollectionResult(clock)
    /\ collection_pc' = "initialize_eikon"
    /\ UNCHANGED <<manager_pc, results, component_calls, data_collection_log, alerts,
                   clock>>
    /\ UNCHANGED <<run_vars, today, lme_copper_futures, daily_predictions, pc,
                   predictions, prediction_date, stmts, txn, call>>

\* if not collector.initialize_eikon(): result['errors'].append(...);
\* return result.  The return inside try runs the finally block and leaves
\* the function
InitializeEikon ==
    /\ collection_pc = "initialize_eikon"
    /\ \E ok \in BOOLEAN, dt \in StepSeconds :
         /\ clock' = clock + dt
         /\ IF ok
            THEN /\ collection_pc' = "connect_database"
                 /\ UNCHANGED collection_result
            ELSE /\ collection_pc' = "returned"
                 /\ collection_result' =
                       Finally([collection_result EXCEPT !.errors =
                                   Append(@, "Failed to initialize EIKON API")], clock')
    /\ UNCHANGED <<manager_pc, results, component_calls, data_collection_log, alerts>>
    /\ UNCHANGED <<run_vars, today, lme_copper_futures, daily_predictions, pc,
                   predictions, prediction_date, stmts, txn, runs, call>>

\* if not collector.connect_database(): result['errors'].append(...);
\* return result
ConnectDatabase ==
    /\ collection_pc = "connect_database"
    /\ \E ok \in BOOLEAN, dt \in StepSeconds :
         /\ clock' = clock + dt
         /\ IF ok
            THEN /\ collection_pc' = "collect_all_futures_data"
                 /\ UNCHANGED collection_result
            ELSE /\ collection_pc' = "returned"
                 /\ collection_result' =
                       Finally([collection_result EXCEPT !.errors =
                                   Append(@, "Failed to connect to database")], clock')
    /\ UNCHANGED <<manager_pc, results, component_calls, data_collection_log, alerts>>
    /\ UNCHANGED <<run_vars, today, lme_copper_futures, daily_predictions, pc,
                   predictions, prediction_date, stmts, txn, runs, call>>

\* collection_result = collector.collect_all_futures_data(days_back=3);
\* if collection_result: the counts of the summary and success = True,
\* else the error; collector.close_connection(); then the finally block.
\* The rows the collector stores are the price feed of the forecast store
\* and are left out here
CollectAllFuturesData ==
    /\ collection_pc = "collect_all_futures_data"
    /\ \E collected \in BOOLEAN, summary \in SummaryCases, dt \in StepSeconds :
         /\ clock' = clock + dt
         /\ collection_result' =
               Finally(IF collected
                       THEN [collection_result EXCEPT
                                !.contracts_processed = Len(summary),
                                !.records_collected = SumRecordCounts(summary),
                                !.success = TRUE]
                       ELSE [collection_result EXCEPT !.errors =
                                Append(@, "Data collection failed")],
                       clock')
    /\ collection_pc' = "log_collection_result"
    /\ UNCHANGED <<manager_pc, results, component_calls, data_collection_log, alerts>>
    /\ UNCHANGED <<run_vars, today, lme_copper_futures, daily_predictions, pc,
                   predictions, prediction_date, stmts, txn, runs, call>>

\* except Exception as e: result['errors'].append(f"Unexpected error: ...")
\* for an exception raised by a step inside try; then the finally block
CollectionUnexpectedError ==
    /\ collection_pc \in collection_steps
    /\ \E dt \in StepSeconds :
         /\ clock' = clock + dt
         /\ collection_result' =
               Finally([collection_result EXCEPT !.errors =
                           Append(@, "Unexpected error")], clock')
    /\ collection_pc' = "log_collection_result"
    /\ UNCHANGED <<manager_pc, results, component_calls, data_collection_log, alerts>>
    /\ UNCHANGED <<run_vars, today, lme_copper_futures, daily_predictions, pc,
                   predictions, prediction_date, stmts, txn, runs, call>>

\* self.log_collection_result(result): the INSERT into data_collection_log
\* is committed, or an exception is logged and nothing is stored; then
\* "if not result['success'] or result['errors']: self.send_alert(result)"
LogCollectionResult ==
    /\ collection_pc = "log_collection_result"
    /\ \E logged \in BOOLEAN :
         data_collection_log' =
            IF logged
            THEN Append(data_collection_log,
                        [start_time          |-> collection_result.start_time,
                         end_time            |-> collection_result.end_time,
                         duration_seconds    |-> collection_result.duration,
                         success             |-> collection_result.success,
                         records_collected   |-> collection_result.records_collected,
                         contracts_processed |-> collection_result.contracts_processed,
                         errors              |-> collection_result.errors,
                         warnings            |-> collection_result.warnings])
            ELSE data_collection_log
    /\ collection_pc' =
          IF ~collection_result.success \/ collection_result.errors # <<>>
          THEN "send_alert" ELSE "returned"
    /\ UNCHANGED <<manager_pc, results, component_calls, collection_result, alerts,
                   clock>>
    /\ UNCHANGED <<run_vars, today, lme_copper_futures, daily_predictions, pc,
                   predictions, prediction_date, stmts, txn, runs, call>>

\* self.send_alert(result): skipped when the mail configuration is not set,
\* else the mail is sent with its subject or the failure to send is logged;
\* return result
SendAlert ==
    /\ collection_pc = "send_alert"
    /\ \E sent \in BOOLEAN :
         alerts' = IF sent
                   THEN Append(alerts, IF collection_result.success
                                       THEN "LME Data Collection - Warning"
                                       ELSE "LME Data Collection - ERROR")
                   ELSE alerts
    /\ collection_pc' = "returned"
    /\ UNCHANGED <<manager_pc, results, component_calls, collection_result,
                   data_collection_log, clock>>
    /\ UNCHANGED <<run_vars, today, lme_copper_futures, daily_predictions, pc,
                   predictions, prediction_date, stmts, txn, runs, call>>

NextCollection ==
    \/ RunDailyCollection
    \/ InitializeEikon
    \/ ConnectDatabase
    \/ CollectAllFuturesData
    \/ CollectionUnexpectedError
    \/ LogCollectionResult
    \/ SendAlert

SpecCollection == Init /\ [][NextCollection]_vars

(***************************************************************************)
(* Properties of the forecast store                                        *)
(***************************************************************************)
\* two rows are forecasts of the same (prediction_date, target_date,
\* contract_month, model_name)
SameForecast(r1, r2) ==
    /\ r1.prediction_date = r2.prediction_date
    /\ r1.target_date = r2.target_date
    /\ r1.contract_month = r2.contract_month
    /\ r1.model_name = r2.model_name

\* a price row with a non-null close exists for the row's contract and target date
HasClose(r) ==
    \E f \in lme_copper_futures :
        /\ f.trade_date = r.target_date
        /\ f.contract_month = r.contract_month
        /\ f.close_price # NULL

\* C1: whatever issuance runs have happened, repeated or racing, the store
\* holds at most one row per (prediction_date, target_date, contract_month,
\* model_name).
C1_OneRowPerKey ==
    \A r1, r2 \in daily_predictions : SameForecast(r1, r2) => r1 = r2

\* two runs of the same issue date race: one waits for the row the other has
\* written, while the store already holds a row of an earlier statement's key
C1_Witness ==
    \E p, q \in Procs :
        /\ p # q
        /\ pc[p] = "save" /\ pc[q] = "save"
        /\ prediction_date[p] = prediction_date[q]
        /\ stmts[q] # <<>>
        /\ \E w \in txn[p] :
              /\ w.model_name = Head(stmts[q]).model_name
              /\ w.target_date = TargetDate(prediction_date[q], Head(stmts[q]).days_ahead)

\* C2 (as claimed): once a forecast is resolved, no step changes its stored
\* predicted_price or its actual_price; re-issuing its key leaves both.
C2_ResolvedKeepsPrediction ==
    [][\A r \in daily_predictions :
          r.actual_price # NULL =>
             \E r2 \in daily_predictions' :
                /\ SameForecast(r, r2)
                /\ r2.predicted_price = r.predicted_price
                /\ r2.actual_price = r.actual_price]_vars

\* C3: the commit of an issuance keeps every existing row and changes none of
\* its columns other than predicted_price, model_version and features_used
\* (so actual_price and prediction_error stay), and every row it adds has
\* actual_price and prediction_error NULL.
C3_IssuanceFrame ==
    [][\A p \in Procs :
          (pc[p] = "save" /\ pc'[p] # "save") =>
             /\ \A r \in daily_predictions :
                   \E r2 \in daily_predictions' :
                      /\ SameForecast(r, r2)
                      /\ r = [r2 EXCEPT !.predicted_price = r.predicted_price,
                                        !.model_version = r.model_version,
                                        !.features_used = r.features_used]
             /\ \A r2 \in daily_predictions' :
                   (\A r \in daily_predictions : ~SameForecast(r, r2)) =>
                      r2.actual_price = NULL /\ r2.prediction_error = NULL]_vars

\* an issuance has re-written, in its open transaction, the price of a
\* forecast that is resolved, and the row still carries its actual price
C3_Witness ==
    \E p \in Procs :
        /\ pc[p] = "save"
        /\ \E w \in txn[p], r \in daily_predictions :
              /\ SameForecast(w, r)
              /\ r.actual_price # NULL
              /\ w.actual_price = r.actual_price
              /\ w.predicted_price # r.predicted_price

\* C4: no step deletes a forecast row, a non-null actual_price never changes
\* again, and a step that ends a reconciliation leaves every resolved row
\* exactly as it was.
C4_ResolvedOnce ==
    [][/\ \A r \in daily_predictions :
             \E r2 \in daily_predictions' :
                /\ SameForecast(r, r2)
                /\ (r.actual_price # NULL => r2.actual_price = r.actual_price)
       /\ \A p \in Procs :
             (pc[p] = "update_commit" /\ pc'[p] # "update_commit") =>
                \A r \in daily_predictions :
                   r.actual_price # NULL => r \in daily_predictions']_vars

\* a reconciliation has run again on a forecast that is resolved, after the
\* feed replaced the close it was resolved with
C4_Witness ==
    \E p \in Procs :
        /\ pc[p] = "update_commit"
        /\ \E r \in daily_predictions, f \in lme_copper_futures :
              /\ r.actual_price # NULL
              /\ f.trade_date = r.target_date
              /\ f.contract_month = r.contract_month
              /\ f.close_price # NULL
              /\ f.close_price # r.actual_price

\* C5: the UPDATE of a reconciliation run resolves exactly the unresolved
\* forecasts for whose contract and target date a price row with a non-null
\* close exists, giving each an actual_price and a prediction_error, and
\* leaves the other unresolved forecasts unresolved; a stored forecast
\* becomes resolved only by the commit of such a run, which stores all the
\* rows of the run or none; and a resolved forecast keeps its actual_price
\* and prediction_error through every later reconciliation.
C5_ResolvedWhenCloseExists ==
    [][\A p \in Procs :
          /\ (pc[p] = "update" /\ pc'[p] = "update_commit") =>
                \A r \in daily_predictions :
                   r.actual_price = NULL =>
                      IF HasClose(r)
                      THEN \E w \in txn'[p] :
                              /\ SameForecast(w, r)
                              /\ w.actual_price # NULL
                              /\ w.prediction_error # NULL
                      ELSE \A w \in txn'[p] : ~SameForecast(w, r)
          /\ (pc[p] = "update_commit" /\ pc'[p] # "update_commit") =>
                /\ daily_predictions' = daily_predictions
                   \/ \A w \in txn[p] : w \in daily_predictions'
                /\ \A r \in daily_predictions :
                      r.actual_price # NULL =>
                         \E r2 \in daily_predictions' :
                            /\ SameForecast(r, r2)
                            /\ r2.actual_price = r.actual_price
                            /\ r2.prediction_error = r.prediction_error
          /\ \A r \in daily_predictions, r2 \in daily_predictions' :
                (SameForecast(r, r2) /\ r.actual_price = NULL /\ r2.actual_price # NULL) =>
                   \E q \in Procs : pc[q] = "update_commit" /\ r2 \in txn[q]]_vars

\* every command has been started; one forecast is resolved and has its
\* close, and another one, whose target date has no non-null close, is still
\* unresolved after the reconciliation that resolved the first
C5_Witness ==
    /\ runs = MaxRuns
    /\ \E r \in daily_predictions : r.actual_price # NULL /\ HasClose(r)
    /\ \E r \in daily_predictions : r.actual_price = NULL /\ ~HasClose(r)

\* C6: the row version a reconciliation UPDATE writes takes its actual_price
\* from the close of a price row of exactly the forecast's contract_month and
\* target_date, and its prediction_error is the absolute difference of the
\* forecast's stored predicted_price and that close; this is the version the
\* commit stores.
C6_ActualIsCloseOfTarget ==
    [][\A p \in Procs :
          /\ (pc[p] = "update" /\ pc'[p] = "update_commit") =>
                \A w \in txn'[p] :
                   /\ \E r \in daily_predictions :
                         SameForecast(r, w) /\ r.predicted_price = w.predicted_price
                   /\ \E f \in lme_copper_futures :
                         /\ f.trade_date = w.target_date
                         /\ f.contract_month = w.contract_month
                         /\ w.actual_price = f.close_price
                   /\ w.prediction_error >= 0
                   /\ \/ w.prediction_error = w.predicted_price - w.actual_price
                      \/ w.prediction_error = w.actual_price - w.predicted_price
          /\ \A r \in daily_predictions, r2 \in daily_predictions' :
                (SameForecast(r, r2) /\ r.actual_price = NULL /\ r2.actual_price # NULL) =>
                   \E q \in Procs : pc[q] = "update_commit" /\ r2 \in txn[q]]_vars

\* a forecast is stored resolved with a prediction above the close, while the
\* 1M contract has a different close on the same date
C6_Witness ==
    \E r \in daily_predictions :
        /\ r.actual_price # NULL
        /\ r.predicted_price > r.actual_price
        /\ r.prediction_error = r.predicted_price - r.actual_price
        /\ \E f \in lme_copper_futures :
              /\ f.trade_date = r.target_date
              /\ f.contract_month # r.contract_month
              /\ f.close_price # r.actual_price

\* C7 (as claimed): in every reachable state every resolved forecast has
\* prediction_error = |predicted_price - actual_price|.
C7_ErrorMatchesPrices ==
    \A r \in daily_predictions :
        r.actual_price # NULL =>
           /\ r.prediction_error >= 0
           /\ \/ r.prediction_error = r.predicted_price - r.actual_price
              \/ r.prediction_error = r.actual_price - r.predicted_price

\* C16: the store changes its forecasts only in the step that commits an
\* issuance, and then every value of that issuance has its row: a step in
\* which no run leaves save_predictions adds no row and changes no
\* predicted_price, and a run that leaves save_predictions (by commit,
\* failure or termination) either leaves the store as it was or has executed
\* every statement and leaves a row for every value of every model.
C16_IssuanceAllOrNothing ==
    [][/\ (\A p \in Procs : pc[p] = "save" => pc'[p] = "save") =>
             \A r2 \in daily_predictions' :
                \E r \in daily_predictions :
                   /\ SameForecast(r, r2)
                   /\ r.predicted_price = r2.predicted_price
                   /\ r.days_ahead = r2.days_ahead
       /\ \A p \in Procs :
             (pc[p] = "save" /\ pc'[p] # "save") =>
                \/ daily_predictions' = daily_predictions
                \/ /\ stmts[p] = <<>>
                   /\ \A m \in DOMAIN predictions[p] :
                         \A h \in 1..Len(predictions[p][m]) :
                            \E r \in daily_predictions' :
                               /\ r.model_name = m
                               /\ r.prediction_date = prediction_date[p]
                               /\ r.target_date = TargetDate(prediction_date[p], h)
                               /\ \E h2 \in 1..Len(predictions[p][m]) :
                                     /\ r.target_date = TargetDate(prediction_date[p], h2)
                                     /\ r.predicted_price
                                           = ToDecimal(predictions[p][m][h2])]_vars

\* a run has executed some of its statements and not the others, and the
\* store holds rows of an earlier issuance but none of the row versions the
\* run has written
C16_Witness ==
    \E p \in Procs :
        /\ pc[p] = "save"
        /\ txn[p] # {}
        /\ stmts[p] # <<>>
        /\ daily_predictions # {}
        /\ \A w \in txn[p] : w \notin daily_predictions

(***************************************************************************)
(* Properties of a single issuance                                         *)
(***************************************************************************)
\* the models of a predictions dict other than the ensemble
Members(preds) == DOMAIN preds \ {"ensemble"}

\* the models of a predictions dict that have a value at horizon step i
Present(preds, i) == {m \in Members(preds) : i <= Len(preds[m])}

RECURSIVE SumAt(_, _, _)
\* the sum, as a fraction <<num, den>>, of the step-i values of the models in S
SumAt(preds, S, i) ==
    IF S = {} THEN <<0, 1>>
    ELSE LET m == CHOOSE x \in S : TRUE
             rest == SumAt(preds, S \ {m}, i)
         IN  <<preds[m][i][1] * rest[2] + rest[1] * preds[m][i][2],
               preds[m][i][2] * rest[2]>>

\* the float e is the arithmetic mean of the step-i values of the models
\* present at step i
IsMeanAt(e, preds, i) ==
    LET sum == SumAt(preds, Present(preds, i), i)
    IN  e[1] * sum[2] * Cardinality(Present(preds, i)) = sum[1] * e[2]

\* the outputs [100,101,102] and [102,101,100] of two models
ExampleOutputs ==
    ("arima" :> <<Float(100, 1), Float(101, 1), Float(102, 1)>>)
    @@ ("prophet" :> <<Float(102, 1), Float(101, 1), Float(100, 1)>>)

\* C8: in the dict make_predictions returns, every horizon step at which some
\* model has a value has an ensemble value, and it is the arithmetic mean of
\* the values of exactly the models that have a value at that step; the
\* outputs [100,101,102] and [102,101,100] give the ensemble [101,101,101].
C8_EnsembleIsMean ==
    /\ call.returned /\ "ensemble" \in DOMAIN call.result =>
          \A i \in 1..prediction_horizon :
             Present(call.result, i) # {} =>
                /\ i <= Len(call.result["ensemble"])
                /\ IsMeanAt(call.result["ensemble"][i], call.result, i)
    /\ call.returned /\ (\E i \in 1..prediction_horizon : Present(call.result, i) # {}) =>
          "ensemble" \in DOMAIN call.result
    /\ WithEnsemble(ExampleOutputs)["ensemble"]
          = <<Float(101, 1), Float(101, 1), Float(101, 1)>>

\* a call has returned in which two models with different values were
\* averaged at the first step and one of them has no value at a later step
\* that still has an ensemble value
C8_Witness ==
    /\ call.returned
    /\ "ensemble" \in DOMAIN call.result
    /\ \E m1, m2 \in Members(call.result) :
          /\ Len(call.result[m1]) >= 1 /\ Len(call.result[m2]) >= 1
          /\ call.result[m1][1] # call.result[m2][1]
          /\ Len(call.result[m1]) < Len(call.result["ensemble"])

\* the stored rows of the model 'ensemble'
EnsembleRows == {r \in daily_predictions : r.model_name = "ensemble"}

\* C9 (as claimed): after an issuance, a horizon step at which no model has a
\* value has no 'ensemble' value and no 'ensemble' row; the k-th ensemble
\* value is stored in an 'ensemble' row with days_ahead = k; and when no model
\* produced a value there is no 'ensemble' model and no 'ensemble' row.
C9_EnsembleStoredAtItsStep ==
    call.returned =>
       /\ \A i \in 1..prediction_horizon :
             Present(call.result, i) = {} =>
                /\ "ensemble" \in DOMAIN call.result => i > Len(call.result["ensemble"])
                /\ \A r \in EnsembleRows : r.days_ahead # i
       /\ "ensemble" \in DOMAIN call.result =>
             \A k \in 1..Len(call.result["ensemble"]) :
                \E r \in EnsembleRows :
                   /\ r.days_ahead = k
                   /\ r.predicted_price = ToDecimal(call.result["ensemble"][k])
       /\ (\A i \in 1..prediction_horizon : Present(call.result, i) = {}) =>
             "ensemble" \notin DOMAIN call.result /\ EnsembleRows = {}

\* the first day from d on that is neither a Saturday nor a Sunday
FirstWeekdayFrom(d) ==
    CHOOSE t \in d..(d + 6) :
        /\ t % 7 \notin {5, 6}
        /\ \A u \in d..(t - 1) : u % 7 \in {5, 6}

\* C10: after an issuance on day D, every value at step h of every model has
\* a row of that model with target_date = the first weekday from D + h on (so
\* the Monday two days later when D + h is a Saturday); every stored row has
\* target_date = the first weekday from prediction_date + days_ahead on, a
\* target_date that is no Saturday or Sunday, and one after prediction_date.
C10_TargetDateSkipsWeekend ==
    call.returned =>
       /\ \A m \in DOMAIN call.result :
             \A h \in 1..Len(call.result[m]) :
                \E r \in daily_predictions :
                   /\ r.model_name = m
                   /\ r.prediction_date = today
                   /\ r.target_date = FirstWeekdayFrom(today + h)
                   /\ (today + h) % 7 = 5 => r.target_date = today + h + 2
       /\ \A r \in daily_predictions :
             /\ r.target_date = FirstWeekdayFrom(r.prediction_date + r.days_ahead)
             /\ r.target_date % 7 \notin {5, 6}
             /\ r.target_date > r.prediction_date

\* a value whose raw target date is a Saturday is stored for the Monday after
C10_Witness ==
    /\ call.returned
    /\ \E r \in daily_predictions :
          /\ (r.prediction_date + r.days_ahead) % 7 = 5
          /\ r.target_date = r.prediction_date + r.days_ahead + 2
          /\ r.target_date % 7 = 0

\* the models make_predictions has an adapter for
Adapters == {"random_forest", "xgboost", "arima", "prophet"}

\* the adapter of model m raises in environment inp
AdapterRaised(inp, m) ==
    CASE m = "random_forest" -> inp.rf = RAISED
      [] m = "xgboost"       -> inp.xgb = RAISED
      [] m = "arima"         -> inp.arima = RAISED_LIST
      [] m = "prophet"       -> inp.prophet = RAISED_LIST

\* the forecast the adapter of model m delivers in environment inp
AdapterOutput(inp, m) ==
    CASE m = "random_forest" -> [i \in 1..prediction_horizon |-> inp.rf]
      [] m = "xgboost"       -> [i \in 1..prediction_horizon |-> inp.xgb]
      [] m = "arima"         -> inp.arima
      [] m = "prophet"       -> inp.prophet

\* C11: in an issuance with enough data, a loaded model whose adapter raises
\* is absent from the predictions, every other loaded model with an adapter
\* is present with exactly the forecast its adapter delivered, the ensemble
\* is the mean over exactly those models, and every value of every model
\* that succeeded is stored as a row of the issuance.
C11_RaisingAdapterAloneExcluded ==
    (call.returned /\ call.data_rows >= min_data_rows) =>
       /\ \A m \in Adapters \cap call.inp.models :
             IF AdapterRaised(call.inp, m)
             THEN m \notin DOMAIN call.result
             ELSE /\ m \in DOMAIN call.result
                  /\ call.result[m] = AdapterOutput(call.inp, m)
       /\ Members(call.result)
             = {m \in Adapters \cap call.inp.models : ~AdapterRaised(call.inp, m)}
       /\ (\E m \in Members(call.result) : Len(call.result[m]) >= 1) =>
             /\ "ensemble" \in DOMAIN call.result
             /\ \A i \in 1..Len(call.result["ensemble"]) :
                   /\ Present(call.result, i) # {}
                   /\ IsMeanAt(call.result["ensemble"][i], call.result, i)
       /\ \A m \in DOMAIN call.result :
             \A h \in 1..Len(call.result[m]) :
                \E r \in daily_predictions :
                   /\ r.model_name = m
                   /\ r.prediction_date = today
                   /\ r.target_date = TargetDate(today, h)

\* an issuance has returned in which one loaded model raised, two others
\* delivered forecasts, the ensemble was built and rows of a model that
\* succeeded are stored
C11_Witness ==
    /\ call.returned
    /\ \E m \in Adapters \cap call.inp.models : AdapterRaised(call.inp, m)
    /\ Cardinality(Members(call.result)) = 2
    /\ "ensemble" \in DOMAIN call.result
    /\ \E r \in daily_predictions : r.model_name \in Members(call.result)

(***************************************************************************)
(* Properties of one run of the predictor process                          *)
(***************************************************************************)
\* a forecast that is empty or contains a NaN
Faulty(pred_list) ==
    pred_list = <<>> \/ \E k \in 1..Len(pred_list) : pred_list[k] = NaN

\* the loaded models whose adapter returned a faulty forecast in this run
FaultyModels ==
    {m \in Adapters \cap models :
        ~AdapterRaised(call.inp, m) /\ Faulty(AdapterOutput(call.inp, m))}

\* the predictions of the run without the models of S
Without(preds, S) == [m \in DOMAIN preds \ S |-> preds[m]]

\* the elements of a list
Range(seq) == {seq[k] : k \in 1..Len(seq)}

\* C12 (as claimed): a loaded model whose adapter returns an empty list or a
\* list containing NaN is not among the models_used of the result, has no
\* row in the store, and every ensemble value of the run is the mean of the
\* values of the other models only.
C12_FaultyForecastExcluded ==
    \A m \in FaultyModels :
        /\ m \notin Range(result.models_used)
        /\ \A r \in daily_predictions : r.model_name # m
        /\ "ensemble" \in DOMAIN predictions[1] =>
              \A i \in 1..Len(predictions[1]["ensemble"]) :
                 /\ Present(Without(predictions[1], FaultyModels), i) # {}
                 /\ IsMeanAt(predictions[1]["ensemble"][i],
                             Without(predictions[1], FaultyModels), i)

\* the models whose artifact file is present and readable
ReadableModels ==
    {m \in {"random_forest", "xgboost", "arima", "lstm"} : model_files[m] = "readable"}

\* C13 (as claimed): load_models loads every model whose artifact is
\* readable, whatever the state of the other artifacts, and when at least
\* one artifact is readable it reports success and the run goes on to fetch
\* the data.
C13_BadArtifactDisablesOneModel ==
    [][LoadModels =>
          /\ models' = ReadableModels
          /\ ReadableModels # {} => pc'[1] = "get_latest_data"]_vars

\* every forecast value the run generated has its row in the store
IssuanceStored ==
    \A m \in DOMAIN predictions[1] :
        \A h \in 1..Len(predictions[1][m]) :
           \E r \in daily_predictions :
              /\ r.model_name = m
              /\ r.prediction_date = result.prediction_date
              /\ r.target_date = TargetDate(result.prediction_date, h)

\* C14 (as claimed): a run that has returned while forecasts it generated
\* are not in the store reports success = false and lists an error.
C14_SaveFailureReported ==
    (pc[1] \in {"returned", "exited"} /\ ~IssuanceStored) =>
       ~result.success /\ result.errors # <<>>

\* C15 (as claimed): when the predictor process has exited and the result of
\* run_daily_prediction had success = false, the exit status is non-zero and
\* run_component reports no success.
C15_ExitStatusReflectsResult ==
    (returncode # NULL /\ ~result.success) =>
       returncode # 0 /\ ~run_component_success(returncode)

(***************************************************************************)
(* Properties of the performance records                                   *)
(***************************************************************************)
\* column value col is what a computed metric v leaves in a column of scale
\* units: a number other than 0 is stored rounded; how 0 and an undefined
\* value are stored is not constrained here beyond being no other number
StoredAs(col, v, scale) ==
    IF v[2] # 0 /\ v[1] # 0
    THEN col = (2 * scale * v[1] + v[2]) \div (2 * v[2])
    ELSE col \in {NULL, NUMERIC_NaN, 0}

window_days == 30

\* the run has gone through evaluate_model_performance
Evaluated == pc[1] \in {"returned", "exited"} /\ result.success

\* the resolved forecasts of the target contract within the trailing window
EvaluatedRows ==
    {r \in daily_predictions :
        /\ r.actual_price # NULL
        /\ r.target_date >= today - window_days
        /\ r.contract_month = target_contract}

\* the evaluated forecasts of group (model_name, days_ahead)
GroupRows(g) == {r \in EvaluatedRows : r.model_name = g[1] /\ r.days_ahead = g[2]}

\* the groups that have an evaluated forecast
GroupKeys == {<<r.model_name, r.days_ahead>> : r \in EvaluatedRows}

\* the performance records of today's evaluation for group g
RecordsOf(g) ==
    {q \in prediction_performance :
        /\ q.evaluation_date = today
        /\ q.model_name = g[1]
        /\ q.contract_month = target_contract
        /\ q.days_ahead = g[2]}

\* the fraction <<num, den>> rounded to a column of scale units
Rounded(f, scale) == (2 * scale * f[1] + f[2]) \div (2 * f[2])

RECURSIVE SumErrors(_)
\* the sum of prediction_error over the rows of S
SumErrors(S) ==
    IF S = {} THEN 0
    ELSE LET r == CHOOSE x \in S : TRUE IN r.prediction_error + SumErrors(S \ {r})

RECURSIVE SumPercentErrors(_)
\* the sum, as a fraction, of |prediction_error / actual_price| * 100 over S
SumPercentErrors(S) ==
    IF S = {} THEN <<0, 1>>
    ELSE LET r == CHOOSE x \in S : TRUE
             rest == SumPercentErrors(S \ {r})
         IN  <<100 * r.prediction_error * rest[2] + rest[1] * r.actual_price,
               r.actual_price * rest[2]>>

\* C17 (as claimed): after an evaluation, a group that contains a forecast
\* with actual_price = 0 has its record; total_predictions and mae count
\* every forecast of the group, and mape is the mean over the forecasts with
\* actual_price # 0 only (NULL when there is none).
C17_ZeroActualExcludedFromMape ==
    Evaluated =>
       \A g \in GroupKeys :
          (\E r \in GroupRows(g) : r.actual_price = 0) =>
             \E q \in RecordsOf(g) :
                LET nonzero == {r \in GroupRows(g) : r.actual_price # 0}
                    sum     == SumPercentErrors(nonzero)
                IN  /\ q.total_predictions = Cardinality(GroupRows(g))
                    /\ q.mae = Rounded(<<SumErrors(GroupRows(g)),
                                         Cardinality(GroupRows(g))>>, 100)
                    /\ q.mape = IF nonzero = {} THEN NULL
                                ELSE Rounded(<<sum[1], sum[2] * Cardinality(nonzero)>>,
                                             10000)

\* -1, 0 or 1
Sign(x) == IF x > 0 THEN 1 ELSE IF x < 0 THEN -1 ELSE 0

\* the evaluated forecasts of the same model with an earlier target date
Earlier(r) ==
    {e \in EvaluatedRows : e.model_name = r.model_name /\ e.target_date < r.target_date}

\* the forecast of the same model that precedes r by target date
Previous(r) ==
    CHOOSE e \in Earlier(r) : \A e2 \in Earlier(r) : e2.target_date <= e.target_date

\* the forecasts of group g that form a pair with their predecessor in which
\* neither the predicted nor the actual change is zero
CountedPairs(g) ==
    {r \in GroupRows(g) :
        /\ Earlier(r) # {}
        /\ Sign(r.predicted_price - Previous(r).actual_price) # 0
        /\ Sign(r.actual_price - Previous(r).actual_price) # 0}

\* the counted pairs whose predicted direction is the actual direction
MatchingPairs(g) ==
    {r \in CountedPairs(g) :
        Sign(r.predicted_price - Previous(r).actual_price)
           = Sign(r.actual_price - Previous(r).actual_price)}

\* C18 (as claimed): after an evaluation, the record of every group has as
\* directional_accuracy the fraction of matching pairs among the pairs
\* without a tie, a value in [0,1], and NULL when no pair without a tie
\* exists.
C18_DirectionalAccuracyWithoutTies ==
    Evaluated =>
       \A g \in GroupKeys :
          \E q \in RecordsOf(g) :
             IF CountedPairs(g) = {}
             THEN q.directional_accuracy = NULL
             ELSE /\ q.directional_accuracy
                        = Rounded(<<Cardinality(MatchingPairs(g)),
                                    Cardinality(CountedPairs(g))>>, 10000)
                  /\ q.directional_accuracy \in 0..10000

\* C20 (as claimed): after an evaluation, every group with at least one
\* resolved forecast of the target contract in the window has exactly one
\* record of today, whose total_predictions is the number of those
\* forecasts, and no other group has a record of today.
C20_OneRecordPerEvaluatedGroup ==
    Evaluated =>
       /\ \A g \in GroupKeys :
             /\ Cardinality(RecordsOf(g)) = 1
             /\ \A q \in RecordsOf(g) : q.total_predictions = Cardinality(GroupRows(g))
       /\ \A q \in prediction_performance :
             q.evaluation_date = today => <<q.model_name, q.days_ahead>> \in GroupKeys

(***************************************************************************)
(* Properties of the result of run_daily_prediction                        *)
(***************************************************************************)
\* a forecast the run has stored has a close for its target date and is
\* still unresolved: the UPDATE of update_actual_prices was not committed
ReconciliationFailed ==
    \E r \in daily_predictions, f \in lme_copper_futures : Matches(r, f)

\* the run has generated predictions and has no metrics: it got {} from the
\* except branch of evaluate_model_performance, or did not get there
EvaluationFailed ==
    result.models_used # <<>> /\ result.performance_metrics = <<>>

\* C21 (as claimed): a run that has returned after its reconciliation or its
\* evaluation failed lists the failure in errors and does not report
\* success.
C21_NoSilentFailure ==
    (pc[1] \in {"returned", "exited"} /\ (ReconciliationFailed \/ EvaluationFailed)) =>
       ~result.success /\ result.errors # <<>>

\* C22: in a run whose price history is empty or has fewer than
\* min_data_rows observations, no model (nor the ensemble) gets a forecast,
\* no forecast row is stored, and once run_daily_prediction has returned its
\* result has success = false and an error entry.
C22_InsufficientDataGivesError ==
    call.data_rows < min_data_rows =>
       /\ predictions[1] = <<>>
       /\ result.models_used = <<>>
       /\ daily_predictions = {}
       /\ pc[1] \in {"returned", "exited"} =>
             ~result.success /\ result.errors # <<>>

\* a run with loaded models and a non-empty history one observation short
\* has returned from the make_predictions step with its error
C22_Witness ==
    /\ call.data_rows = min_data_rows - 1
    /\ call.data_rows > 0
    /\ models # {}
    /\ pc[1] = "returned"
    /\ result.errors = <<"Failed to generate predictions">>
    /\ daily_predictions = {}

\* step b is the step after step a
NextStep(a, b) ==
    \E k \in 1..(Len(run_steps) - 1) : run_steps[k] = a /\ run_steps[k + 1] = b

\* C24 (as claimed): the run moves from each step only to the next one or to
\* its return; a step changes the forecast rows by an issuance only in the
\* save step of a run with a loaded model, a non-empty history and
\* predictions; and the run enters reconciliation and evaluation only with
\* the save step done, so not when the save failed.
C24_StepsOrderedAndGated ==
    [][/\ (pc'[1] # pc[1] /\ pc[1] \in Range(run_steps)) =>
             NextStep(pc[1], pc'[1]) \/ pc'[1] = "returned"
       /\ {ConflictKey(r) : r \in daily_predictions'}
             # {ConflictKey(r) : r \in daily_predictions} =>
             /\ pc[1] = "save_predictions"
             /\ models # {} /\ call.data_rows > 0 /\ predictions[1] # <<>>
       /\ pc'[1] \in {"update_actual_prices", "evaluate_model_performance"} =>
             IssuanceStored']_vars

\* the forecast rows the run has inserted or overwritten: the store is empty
\* when the run starts and nothing else writes to it
RowsWrittenByRun ==
    {r \in daily_predictions : r.prediction_date = result.prediction_date}

\* C27 (as claimed): when run_daily_prediction has returned, predictions_saved
\* in its result is the number of forecast rows the run inserted or
\* overwrote in the store, 0 when the save failed or was not reached.
C27_PredictionsSavedCountsRows ==
    pc[1] \in {"returned", "exited"} =>
       result.predictions_saved = Cardinality(RowsWrittenByRun)

\* C28: whenever run_daily_prediction returns, success is true exactly when
\* errors is empty; a return from any step before the end of the evaluation
\* (an early abort at the tables, the models, the data or the predictions,
\* or an unexpected exception) has success = false and an error entry, and
\* no step that appends an error reports success.
C28_SuccessIffNoErrors ==
    [][(pc'[1] = "returned" /\ pc[1] # "returned") =>
          /\ result'.success <=> result'.errors = <<>>
          /\ pc[1] # "evaluate_model_performance" =>
                ~result'.success /\ result'.errors # <<>>
          /\ Len(result'.errors) > Len(result.errors) => ~result'.success]_vars

\* the run has stored its forecasts and was then ended by an unexpected
\* exception: it has returned without success and with the error
C28_Witness ==
    /\ pc[1] = "returned"
    /\ daily_predictions # {}
    /\ result.models_used # <<>>
    /\ ~result.success
    /\ result.errors = <<"Unexpected error">>

(***************************************************************************)
(* Properties of the rows of one issuance                                  *)
(***************************************************************************)
\* the rows the store holds for model m of the issuance of today
RowsOfModel(m) ==
    {r \in daily_predictions : r.prediction_date = today /\ r.model_name = m}

\* C25 (as claimed): after an issuance, any two distinct steps of a model's
\* forecast have distinct weekend-adjusted target dates, and the store holds
\* one row of the model for each step of its forecast.
C25_DistinctStepsDistinctRows ==
    call.returned =>
       \A m \in DOMAIN call.result :
          /\ \A h1, h2 \in 1..Len(call.result[m]) :
                h1 # h2 => TargetDate(today, h1) # TargetDate(today, h2)
          /\ Cardinality(RowsOfModel(m)) = Len(call.result[m])

\* C26 (as claimed): after an issuance, every stored row of it has as
\* target_date the weekend-adjusted (prediction_date + days_ahead) and as
\* predicted_price the value of its model at step days_ahead.
C26_RowMatchesItsStep ==
    call.returned =>
       \A r \in daily_predictions :
          /\ r.target_date = TargetDate(r.prediction_date, r.days_ahead)
          /\ r.model_name \in DOMAIN call.result
          /\ r.days_ahead \in 1..Len(call.result[r.model_name])
          /\ r.predicted_price = ToDecimal(call.result[r.model_name][r.days_ahead])

(***************************************************************************)
(* Properties of the persisted metric values                               *)
(***************************************************************************)
\* a computed metric that is a number (0 included) is persisted as that
\* number, rounded to the column's scale; an undefined one is not constrained
PersistedAs(col, v, scale) ==
    (v # None /\ v # NaN) => col = Rounded(v, scale)

\* C29 (as claimed): a call of save_performance_metrics that changes the
\* table leaves, for every row of its frame, a record whose mae, rmse, mape
\* and directional_accuracy are the computed values, a computed 0 being
\* stored as 0 and not as null.
C29_ZeroMetricPersisted ==
    [][prediction_performance' # prediction_performance =>
          \A k \in 1..Len(performance_df') :
             \E q \in prediction_performance' :
                /\ q.evaluation_date = today
                /\ q.model_name = performance_df'[k].model_name
                /\ q.days_ahead = performance_df'[k].days_ahead
                /\ PersistedAs(q.mae, performance_df'[k].mae, 100)
                /\ PersistedAs(q.rmse, performance_df'[k].rmse, 100)
                /\ PersistedAs(q.mape, performance_df'[k].mape, 10000)
                /\ PersistedAs(q.directional_accuracy,
                               performance_df'[k].directional_accuracy, 10000)]_vars

(***************************************************************************)
(* Properties of run_full_pipeline                                         *)
(***************************************************************************)
\* the manager has called run_component for the component with the command
Called(component, command) ==
    \E k \in 1..Len(component_calls) : component_calls[k] = <<component, command>>

\* C23: the manager calls the components in the order collection,
\* prediction, validation, each at most once; the prediction is called only
\* after a collection that succeeded, and after every such collection; when
\* run_full_pipeline has returned the validation has been called whatever
\* the earlier outcomes were, and overall_success is true exactly when
\* data_collection and prediction are both true, whatever validation is.
C23_PipelineOrderAndSuccess ==
    /\ component_calls \in
          {<<>>,
           <<<<"scheduler", "collect">>>>,
           <<<<"scheduler", "collect">>, <<"predictor", "predict">>>>,
           <<<<"scheduler", "collect">>, <<"scheduler", "validate">>>>,
           <<<<"scheduler", "collect">>, <<"predictor", "predict">>,
             <<"scheduler", "validate">>>>}
    /\ Called("predictor", "predict") => results.data_collection
    /\ (pc[1] # "idle" \/ results.prediction) => Called("predictor", "predict")
    /\ Called("scheduler", "validate") =>
          (results.data_collection <=> Called("predictor", "predict"))
    /\ manager_pc = "returned" =>
          /\ Called("scheduler", "validate")
          /\ results.overall_success <=> (results.data_collection /\ results.prediction)
    /\ manager_pc # "returned" => ~results.overall_success /\ ~results.validation

\* the pipeline has returned after a collection and a prediction that
\* succeeded and a validation that failed: overall_success is true
C23_Witness ==
    /\ manager_pc = "returned"
    /\ results.data_collection /\ results.prediction
    /\ ~results.validation
    /\ results.overall_success
    /\ pc[1] = "exited"
    /\ Len(component_calls) = 3

(***************************************************************************)
(* Properties of run_daily_collection                                      *)
(***************************************************************************)
\* C30 (as claimed): every return of run_daily_collection leaves end_time
\* and duration set in the result, comes after the call of
\* log_collection_result for the result, and comes after the call of
\* send_alert when the result has success = false or an error.
C30_EveryExitLoggedAndAlerted ==
    [][(collection_pc' = "returned" /\ collection_pc # "returned") =>
          /\ collection_result'.end_time # NULL
          /\ collection_result'.duration =
                collection_result'.end_time - collection_result'.start_time
          /\ collection_pc \in {"log_collection_result", "send_alert"}
          /\ (~collection_result'.success \/ collection_result'.errors # <<>>) =>
                collection_pc = "send_alert"]_vars

====
